---- MODULE Spec2Model ----
(***************************************************************************)
(* Booking orchestration layer of the calendar-booking chatbot             *)
(* (src/calcom_api.py): duration normalisation, the retrying transport,    *)
(* the create / list / cancel / reschedule operations and the reference    *)
(* sweep against the external booking service; the tools and the chat      *)
(* history of src/backend.py, and the /chat route of src/app.py.           *)
(*                                                                         *)
(* Six specifications share the module:                                    *)
(*   SpecDur    find_closest_duration applied to every duration in bounds  *)
(*   SpecRetry  one call through retry_with_backoff, attempt by attempt    *)
(*   Spec       the orchestrator operations against the external service,  *)
(*              starting from an empty service                             *)
(*   SpecSeeded list, cancel and the reference sweep against a service     *)
(*              that already holds a booking with one or two attendees     *)
(*              and up to two reference records                            *)
(*   SpecCancel a conversation of cancel calls against a service that      *)
(*              already holds two bookings and their reference records     *)
(*   SpecChat   /chat requests of several clients served concurrently      *)
(***************************************************************************)
EXTENDS Integers, Sequences, FiniteSets, TLC

VARIABLES
    \* --- SpecDur: find_closest_duration(duration) ---
    duration,            \* the argument
    adjusted_duration,   \* the value returned, NoValue until the call is made
    \* --- SpecRetry: one call of a function wrapped by retry_with_backoff ---
    rt_pc,               \* "idle" | "calling" | "sleeping" | "returned" | "raised"
    rt_attempt,          \* loop variable `attempt` of wrapper (0-based)
    rt_delay,            \* local `retry_delay` of wrapper, in seconds
    rt_resps,            \* history: outcome of every attempt made, in order
    rt_waits,            \* history: every time.sleep argument, in jitter units
    rt_result,           \* what the call gave its caller
    \* --- Spec: the external service and the clock ---
    now,                 \* wall clock, in ticks (TicksPerMinute ticks a minute)
    bookings,            \* the service's bookings; a booking's id is its index
    refs,                \* the service's booking-reference records, in list order
    \* --- Spec: the operation in progress ---
    pc,                  \* "idle", or the request the operation is about to send
    op,                  \* name and arguments of the current (or last) operation
    opsLeft,             \* operations the conversation may still invoke
    attempt,             \* `attempt` of the make_api_request call in progress
    retry_delay,         \* `retry_delay` of the make_api_request call in progress
    r_attempt,           \* `attempt` of the wrapper around reschedule_booking
    r_delay,             \* `retry_delay` of the wrapper around reschedule_booking
    booking_references,  \* local: the reference list last fetched
    todo,                \* local: unique_booking_ids not yet iterated
    cur,                 \* local: booking_id / reference id of the request in progress
    user_bookings,       \* local: bookings collected by _get_user_bookings_detailed
    matching_booking,    \* local: result of _find_booking, <<>> for None
    payload,             \* local: body of the POST / PATCH request, <<>> before it is built
    result,              \* what the last operation returned or raised
    \* --- Spec: history of the current invocation ---
    sent,                \* number of requests sent, per mutating request kind
    fetched,             \* kinds of GET request sent
    swallowed,           \* failure that _get_user_bookings_detailed turned into [], or "none"
    wire,                \* body of the last POST / PATCH request sent, <<>> if none
    \* --- SpecSeeded: locals of _remove_cancelled_booking_references ---
    reference_index,     \* position of the for loop in booking_references (1-based)
    cancelled_refs_removed,  \* local counter of the references deleted
    \* --- SpecChat: backend.py ---
    memory,              \* messages of the module's ConversationBufferMemory, in order
    requests             \* the /chat requests being served, by handler thread

durVars == <<duration, adjusted_duration>>
rtVars  == <<rt_pc, rt_attempt, rt_delay, rt_resps, rt_waits, rt_result>>
svcVars == <<bookings, refs>>
locVars == <<booking_references, todo, cur, user_bookings, matching_booking, payload>>
tryVars == <<attempt, retry_delay>>
rtyVars == <<r_attempt, r_delay>>
hisVars == <<sent, fetched, swallowed, wire>>
opVars  == <<now, svcVars, pc, op, opsLeft, tryVars, rtyVars, locVars, result, hisVars>>
purVars == <<reference_index, cancelled_refs_removed>>
chatVars == <<memory, requests>>
extVars == <<purVars, chatVars>>
vars    == <<durVars, rtVars, opVars, extVars>>

NoValue == -1

(***************************************************************************)
(* Bounds of the model                                                     *)
(***************************************************************************)
\* durations 1..MaxDuration are given to find_closest_duration
MaxDuration == 500
\* random.uniform(0, 1) is sampled at the points j / JitterScale, j in 0..JitterScale
JitterScale == 3
\* /chat requests served by the backend in one behaviour of SpecChat
MaxRequests == 2
\* operations invoked against a service that already holds a booking (SpecSeeded)
SeededOps == 1

(***************************************************************************)
(* find_closest_duration                                                   *)
(***************************************************************************)
valid_durations ==
    <<5, 10, 15, 20, 25, 30, 45, 50, 60, 75, 80, 90, 120, 150, 180, 240, 300, 360, 420, 480>>

Abs(x) == IF x < 0 THEN -x ELSE x

\* Python's min(iterable, key=...): scan in order, replace the running minimum
\* only by an element whose key is strictly smaller (the first minimum wins).
RECURSIVE min_by_key(_, _, _, _)
min_by_key(seq, target, i, best) ==
    IF i > Len(seq) THEN best
    ELSE min_by_key(seq, target, i + 1,
                    IF Abs(seq[i] - target) < Abs(best - target) THEN seq[i] ELSE best)

\* the same scan keeping the last minimum (mutation of find_closest_duration)
RECURSIVE min_by_key_last(_, _, _, _)
min_by_key_last(seq, target, i, best) ==
    IF i > Len(seq) THEN best
    ELSE min_by_key_last(seq, target, i + 1,
                         IF Abs(seq[i] - target) <= Abs(best - target) THEN seq[i] ELSE best)

find_closest_duration_last(d) == min_by_key_last(valid_durations, d, 2, valid_durations[1])

find_closest_duration(d) == min_by_key(valid_durations, d, 2, valid_durations[1])

DurIdle == duration = 0 /\ adjusted_duration = NoValue

InitDurations == duration \in 1..MaxDuration /\ adjusted_duration = NoValue

NormalizeDuration ==
    /\ adjusted_duration = NoValue
    /\ duration >= 1
    /\ adjusted_duration' = find_closest_duration(duration)
    /\ UNCHANGED <<duration, rtVars, opVars, extVars>>

(***************************************************************************)
(* retry_with_backoff / make_api_request                                   *)
(***************************************************************************)
max_retries == 5
base_delay == 1

\* What one execution of the wrapped function (requests.request followed by
\* raise_for_status) can give: a response that passes raise_for_status (200, or
\* another status below 400 by which the service also reports that it acted),
\* an HTTPError carrying a status, or another RequestException.
OkStatuses      == {"200", "201", "204"}
HttpErrStatuses == {"429", "404", "500"}
TransportErrors == {"ConnectionError", "Timeout"}
Responses       == OkStatuses \cup HttpErrStatuses \cup TransportErrors

\* response.status_code == 200, the test the callers make on a returned response
status_code_200(resp) == resp = "200"

\* response.json() raises JSONDecodeError, a RequestException that is not an
\* HTTPError: a 204 answer has no body
json_raises(resp) == resp = "204"

\* mutation of wrapper_step: every HTTPError is retried, not only 429
wrapper_step_retry_all(att, resp) ==
    IF resp \in OkStatuses THEN "return"
    ELSE IF resp \in HttpErrStatuses
         THEN IF att = max_retries - 1 THEN "raise" ELSE "sleep"
         ELSE "raise"

\* mutation of wrapper_step: the last-attempt test is off by one
wrapper_step_off_by_one(att, resp) ==
    IF resp \in OkStatuses THEN "return"
    ELSE IF resp = "429"
         THEN IF att = max_retries THEN "raise" ELSE "sleep"
         ELSE "raise"

\* body of the for loop of wrapper for one attempt: return the result, re-raise,
\* or sleep and go round again
wrapper_step(att, resp) ==
    IF resp \in OkStatuses THEN "return"
    ELSE IF resp = "429"
         THEN IF att = max_retries - 1 THEN "raise" ELSE "sleep"
         ELSE "raise"

\* what the caller of make_api_request has once it has read the body of the
\* response with .json(): the wrapper's outcome, or the JSONDecodeError raised
\* outside the wrapper
request_step(att, resp) ==
    IF wrapper_step(att, resp) = "return" /\ json_raises(resp) THEN "raise"
    ELSE wrapper_step(att, resp)

\* mutation of next_retry_delay: linear instead of exponential backoff
next_retry_delay_linear(d) == d + 1

\* retry_delay *= 2
next_retry_delay(d) == d * 2

\* sleep_time = retry_delay + random.uniform(0, 1), in units of 1/JitterScale s
sleep_time(d, j) == d * JitterScale + j

RtIdle ==
    /\ rt_pc = "idle"
    /\ rt_attempt = 0
    /\ rt_delay = base_delay
    /\ rt_resps = <<>>
    /\ rt_waits = <<>>
    /\ rt_result = [kind |-> "none", resp |-> "none"]

\* wrapper(*args, **kwargs) is entered: max_retries = 5, retry_delay = 1
RtCall ==
    /\ rt_pc = "idle"
    /\ rt_pc' = "calling"
    /\ rt_attempt' = 0
    /\ rt_delay' = base_delay
    /\ UNCHANGED <<rt_resps, rt_waits, rt_result, durVars, opVars, extVars>>

\* one pass of `try: return func(...) except HTTPError`
RtAttempt ==
    /\ rt_pc = "calling"
    /\ \E resp \in Responses :
         /\ rt_resps' = Append(rt_resps, resp)
         /\ LET step == wrapper_step(rt_attempt, resp) IN
              /\ rt_pc' = CASE step = "return" -> "returned"
                            [] step = "raise"  -> "raised"
                            [] OTHER           -> "sleeping"
              /\ rt_result' = CASE step = "return" -> [kind |-> "return", resp |-> resp]
                                [] step = "raise"  -> [kind |-> "raise", resp |-> resp]
                                [] OTHER           -> rt_result
    /\ UNCHANGED <<rt_attempt, rt_delay, rt_waits, durVars, opVars, extVars>>

\* time.sleep(retry_delay + uniform(0,1)); retry_delay *= 2; next iteration of
\* the for loop, which ends (wrapper returns None) when range(max_retries) is used up
RtSleep ==
    /\ rt_pc = "sleeping"
    /\ \E j \in 0..JitterScale :
         rt_waits' = Append(rt_waits, sleep_time(rt_delay, j))
    /\ rt_delay' = next_retry_delay(rt_delay)
    /\ rt_attempt' = rt_attempt + 1
    /\ IF rt_attempt + 1 < max_retries
       THEN rt_pc' = "calling" /\ UNCHANGED rt_result
       ELSE rt_pc' = "returned" /\ rt_result' = [kind |-> "return", resp |-> "None"]
    /\ UNCHANGED <<rt_resps, durVars, opVars, extVars>>

(***************************************************************************)
(* Bounds and input sets of the orchestrator model                         *)
(***************************************************************************)
\* operations one conversation invokes
MaxOps == 2
\* bookings the external service accepts before it answers every POST with an error
MaxBookings == 2
\* clock resolution: datetime.now() is finer than the minute of a start time
TicksPerMinute == 2

\* Python's None, and a date or time string that strptime rejects
BadFormat == -2

MinutesPerDay == 24 * 60

Emails == {"ann@x.org", "bob@x.org"}
Zones  == {"UTC", "Etc/GMT-1"}
\* minutes east of UTC
utc_offset(tz) == IF tz = "Etc/GMT-1" THEN 60 ELSE 0

\* str(get_localzone()) of the machine the program runs on
SystemTimezone == "Etc/GMT-1"

\* what get_system_info does on that machine: it returns the timezone and the
\* language, or setlocale raises locale.Error for a locale that is not
\* installed, or getlocale()[0] is None (the C locale) and .split raises
\* AttributeError
SystemInfoFailures == {"locale.Error", "AttributeError"}
SystemInfoOutcomes == {"returned"} \cup SystemInfoFailures

\* arguments the conversational layer passes
Dates          == {1}
Times          == {0, 60}
CreateTimes    == Times \cup {BadFormat}
CreateDurations == {37, 60}
Callers        == { [name |-> "Ann", email |-> "ann@x.org", reason |-> "sync"],
                    [name |-> "",    email |-> "bob@x.org", reason |-> ""] }
\* (new_date, new_time, new_duration) of reschedule
NewValues      == { <<NoValue, NoValue, NoValue>>, <<2, NoValue, NoValue>>,
                    <<NoValue, 60, NoValue>>, <<NoValue, NoValue, 37>>,
                    <<2, 60, 37>>, <<NoValue, BadFormat, NoValue>> }
\* references the service creates along with a booking
NewRefCounts   == {0, 1}
\* 'message' of an error body ("Unknown error": absent, or any other text; a
\* rate-limit response carries none of the texts create_booking looks for)
ErrorMessages  == {"Invalid event length", "Attempting to book a meeting in the past",
                   "invalid_type", "Unknown error"}

(***************************************************************************)
(* Time: an instant is a number of minutes since day 0, 00:00 UTC; a date  *)
(* string is a day number and a time string a minute of the day.           *)
(***************************************************************************)
\* datetime.strptime(f"{date} {time}", "%Y-%m-%d %H:%M") succeeds
parses(date, time) == date >= 0 /\ time >= 0 /\ time < MinutesPerDay

\* tz.localize(datetime.strptime(...)): the instant of a wall-clock reading
localize(date, time, tz) == date * MinutesPerDay + time - utc_offset(tz)

\* instant.astimezone(tz): date and minute of the day on the wall clock of tz
astimezone(instant, tz) ==
    [date |-> (instant + utc_offset(tz)) \div MinutesPerDay,
     time |-> (instant + utc_offset(tz)) % MinutesPerDay]

\* strftime('%I:%M %p') of a minute of the day
strftime_12h(t) ==
    [hour   |-> IF (t \div 60) % 12 = 0 THEN 12 ELSE (t \div 60) % 12,
     minute |-> t % 60,
     ampm   |-> IF t \div 60 < 12 THEN "AM" ELSE "PM"]

\* mutation of is_past: a start up to a minute old is let through
is_past_minute_late(start_time, clock) == (start_time + 1) * TicksPerMinute < clock

\* start_time < datetime.now(local_tz)
is_past(start_time, clock) == start_time * TicksPerMinute < clock

(***************************************************************************)
(* The external service                                                    *)
(***************************************************************************)
MutatingRequests == {"POST /bookings", "DELETE /bookings/{id}/cancel",
                     "DELETE /booking-references/{id}", "PATCH /bookings/{id}"}
NothingSent == [k \in MutatingRequests |-> 0]
Count(k) == [sent EXCEPT ![k] = @ + 1]

SetMax(S) == IF S = {} THEN 0 ELSE CHOOSE x \in S : \A y \in S : y <= x
NewRefId(rs) == 1 + SetMax({rs[i].id : i \in 1..Len(rs)})

RECURSIVE NewRefs(_, _, _)
NewRefs(rs, booking_id, n) ==
    IF n = 0 THEN rs
    ELSE NewRefs(Append(rs, [id |-> NewRefId(rs), bookingId |-> booking_id, deleted |-> FALSE]),
                 booking_id, n - 1)

NoResult == [kind |-> "none", tag |-> "none", cause |-> "none", tries |-> 0, data |-> <<>>]
Returned(tag, data) ==
    [kind |-> "return", tag |-> tag, cause |-> "none", tries |-> 0, data |-> data]
\* a returned error message that reports the failure `cause` of a request tried `tries` times
ReturnedError(tag, cause, tries, data) ==
    [kind |-> "return", tag |-> tag, cause |-> cause, tries |-> tries, data |-> data]
Raised(tag, cause, tries) ==
    [kind |-> "raise", tag |-> tag, cause |-> cause, tries |-> tries, data |-> <<>>]

NoOp == [name |-> "none"]

\* _remove_cancelled_booking_references is not running
PurgeIdle == reference_index = 0 /\ cancelled_refs_removed = 0

\* the /chat requests the server handles, each on a thread of its own
Threads == 1..MaxRequests
NoRequest == [pc |-> "idle", client |-> "none", turn |-> 0, chat_history |-> <<>>]

\* backend.py has just been imported: the history is empty, no request is in
ChatIdle == memory = <<>> /\ requests = [t \in Threads |-> NoRequest]

OpIdle ==
    /\ PurgeIdle
    /\ ChatIdle
    /\ pc = "idle"
    /\ op = NoOp
    /\ attempt = 0 /\ retry_delay = base_delay
    /\ r_attempt = 0 /\ r_delay = base_delay
    /\ booking_references = <<>>
    /\ todo = {}
    /\ cur = 0
    /\ user_bookings = <<>>
    /\ matching_booking = <<>>
    /\ payload = <<>>
    /\ result = NoResult
    /\ sent = NothingSent
    /\ fetched = {}
    /\ swallowed = "none"
    /\ wire = <<>>

\* the clock is read at the first bookable minute and one tick later
NowStart == localize(1, 0, SystemTimezone) * TicksPerMinute
ClockReadings == {NowStart, NowStart + 1}

\* the service holds nothing and the conversation has not started
InitService ==
    /\ now = NowStart
    /\ bookings = <<>>
    /\ refs = <<>>
    /\ opsLeft = MaxOps

\* a booking the service already holds when SpecSeeded starts: at the first
\* bookable minute, with one or two attendees in either order and timezone
SeedStart == localize(1, 0, SystemTimezone)
SeedLength == 30
Attendees == [email : Emails, timeZone : Zones]
AttendeeLists ==
    {<<a>> : a \in Attendees} \cup
    {pair \in {<<a, b>> : a \in Attendees, b \in Attendees} : pair[1].email # pair[2].email}
SeedStatuses == {"ACCEPTED", "CANCELLED"}
SeedBooking(attendees, status) ==
    [id |-> 1, status |-> status, startTime |-> SeedStart,
     endTime |-> SeedStart + SeedLength, attendees |-> attendees]
\* its reference records: none, one or two, each with or without the deletion marker
SeedRefFlags == {<<>>, <<FALSE>>, <<TRUE>>, <<FALSE, FALSE>>, <<TRUE, FALSE>>, <<FALSE, TRUE>>}
SeedRefs(flags) ==
    [i \in 1..Len(flags) |-> [id |-> i, bookingId |-> 1, deleted |-> flags[i]]]
\* the dates and times asked for in SpecSeeded: the seeded booking's start on the
\* wall clock of either zone
SeedDates == {astimezone(SeedStart, tz).date : tz \in Zones}
SeedTimes == {astimezone(SeedStart, tz).time : tz \in Zones}

\* SpecCancel: a second booking, of somebody else at another hour, and the
\* reference that may point to it, listed before those of the first booking
OtherBooking ==
    [id |-> 2, status |-> "ACCEPTED", startTime |-> SeedStart + 120,
     endTime |-> SeedStart + 120 + SeedLength,
     attendees |-> << [email |-> "bob@x.org", timeZone |-> "UTC"] >>]
OtherRefs == {<<>>, << [id |-> 0, bookingId |-> 2, deleted |-> FALSE] >>}

\* no conversation: Spec's variables at rest in the other specifications
OpRest == OpIdle /\ now = NowStart /\ bookings = <<>> /\ refs = <<>> /\ opsLeft = 0

\* time passes between two operations
Tick ==
    /\ pc = "idle"
    /\ now + 1 \in ClockReadings
    /\ now' = now + 1
    /\ UNCHANGED <<svcVars, pc, op, opsLeft, tryVars, rtyVars, locVars, result, hisVars,
                   durVars, rtVars, extVars>>

\* an operation is entered: locals and the invocation's history start afresh
Enter(o) ==
    /\ pc = "idle"
    /\ opsLeft > 0
    /\ opsLeft' = opsLeft - 1
    /\ op' = o
    /\ attempt' = 0 /\ retry_delay' = base_delay
    /\ r_attempt' = 0 /\ r_delay' = base_delay
    /\ booking_references' = <<>>
    /\ todo' = {}
    /\ cur' = 0
    /\ user_bookings' = <<>>
    /\ matching_booking' = <<>>
    /\ sent' = NothingSent
    /\ fetched' = {}
    /\ swallowed' = "none"
    /\ wire' = <<>>

(***************************************************************************)
(* create_booking                                                          *)
(***************************************************************************)
\* mutation of create_adjusted_duration: the requested duration is used as given
create_raw_duration(d) == d

\* adjusted_duration = find_closest_duration(duration)
create_adjusted_duration(d) == find_closest_duration(d)

\* the list missing_fields built for an "invalid_type" error
missing_fields(o) ==
    (IF o.person = "" THEN <<"name">> ELSE <<>>) \o
    (IF o.email = "" THEN <<"email">> ELSE <<>>) \o
    (IF o.reason = "" THEN <<"reason">> ELSE <<>>)

\* classification of the error message of a non-200 response
create_error(o, message) ==
    CASE message = "Invalid event length" -> "invalid_duration"
      [] message = "Attempting to book a meeting in the past" -> "past_by_service"
      [] message = "invalid_type" ->
            IF missing_fields(o) # <<>> THEN "missing_fields" ELSE "invalid_input"
      [] OTHER -> "error_creating"

\* time.sleep(sleep_time): the clock may pass a reading while the wrapper sleeps
Slept == \E t \in {now, now + 1} \cap ClockReadings : now' = t

\* requests.request, called without a timeout, takes time: the clock may pass a
\* reading before the response is there
Elapsed == \E t \in {now, now + 1} \cap ClockReadings : now' = t

\* create_booking up to the POST: lines 69-105
CallCreate(date, time, dur, who) ==
    LET o == [name |-> "create", date |-> date, time |-> time, duration |-> dur,
              reason |-> who.reason, person |-> who.name, email |-> who.email,
              at |-> now, pre |-> [bookings |-> bookings, refs |-> refs]]
        adjusted   == create_adjusted_duration(dur)
        start_time == localize(date, time, SystemTimezone)
        end_time   == start_time + adjusted
    IN
    /\ Enter(o)
    /\ \E info \in SystemInfoOutcomes :
       IF info \in SystemInfoFailures
       THEN \* line 69, outside every try: the exception leaves create_booking
            /\ result' = Raised(info, "none", 0)
            /\ payload' = <<>>
            /\ pc' = "idle"
       ELSE IF ~parses(date, time)
       THEN /\ result' = ReturnedError("invalid_format", "none", 0, <<>>)
            /\ payload' = <<>>
            /\ pc' = "idle"
       ELSE IF is_past(start_time, now)
       THEN /\ result' = ReturnedError("past", "none", 0, <<>>)
            /\ payload' = <<>>
            /\ pc' = "idle"
       ELSE /\ payload' = [start |-> start_time, end |-> end_time,
                           responses |-> [name |-> who.name, email |-> who.email,
                                          notes |-> who.reason],
                           timeZone |-> SystemTimezone]
            /\ result' = NoResult
            /\ pc' = "post"
    /\ UNCHANGED <<now, svcVars, durVars, rtVars, extVars>>

\* the summary returned for a 200 response: lines 111-121
create_summary(o, adjusted) ==
    LET start_time == localize(o.date, o.time, SystemTimezone)
        local_start == astimezone(start_time, SystemTimezone)
        local_end   == astimezone(start_time + adjusted, SystemTimezone)
    IN [Date     |-> local_start.date,
        Time     |-> [from |-> strftime_12h(local_start.time),
                      to   |-> strftime_12h(local_end.time),
                      timezone |-> SystemTimezone],
        Duration |-> adjusted,
        Reason   |-> o.reason,
        Name     |-> o.person,
        Email    |-> o.email]

\* requests.post and the handling of its response: lines 107-148 (one attempt,
\* not through make_api_request)
CreatePost ==
    /\ pc = "post"
    /\ sent' = Count("POST /bookings")
    /\ wire' = payload
    /\ \E resp \in Responses :
         \/ /\ resp \in OkStatuses
            /\ Len(bookings) < MaxBookings
            /\ \E n \in NewRefCounts :
                 /\ bookings' = Append(bookings,
                        [id |-> Len(bookings) + 1, status |-> "ACCEPTED",
                         startTime |-> payload.start, endTime |-> payload.end,
                         attendees |-> << [email |-> payload.responses.email,
                                           timeZone |-> payload.timeZone] >>])
                 /\ refs' = NewRefs(refs, Len(bookings) + 1, n)
            /\ IF status_code_200(resp)
               THEN result' = Returned("created",
                                  create_summary(op, create_adjusted_duration(op.duration)))
               ELSE IF json_raises(resp)
               THEN \* line 123 reads the body; without one lines 147-148 answer
                    result' = ReturnedError("error_creating", resp, 1, <<>>)
               ELSE \* lines 122-145: the body of the created booking has no 'message'
                    result' = ReturnedError(create_error(op, "Unknown error"), resp, 1,
                                         [adjusted |-> create_adjusted_duration(op.duration),
                                          missing |-> missing_fields(op)])
         \/ /\ resp \in HttpErrStatuses
            /\ \E message \in (IF resp = "429" THEN {"Unknown error"} ELSE ErrorMessages) :
                 result' = ReturnedError(create_error(op, message), resp, 1,
                                         [adjusted |-> create_adjusted_duration(op.duration),
                                          missing |-> missing_fields(op)])
            /\ UNCHANGED svcVars
         \/ /\ resp \in TransportErrors
            /\ result' = ReturnedError("error_creating", resp, 1, <<>>)
            /\ UNCHANGED svcVars
    /\ pc' = "idle"
    /\ Elapsed
    /\ UNCHANGED <<op, opsLeft, tryVars, rtyVars, locVars, fetched, swallowed,
                   durVars, rtVars, extVars>>

(***************************************************************************)
(* make_api_request inside an operation: one attempt per step              *)
(***************************************************************************)
\* the wrapper sleeps and goes round again with the same request
RetryRequest ==
    /\ attempt' = attempt + 1
    /\ retry_delay' = next_retry_delay(retry_delay)
    /\ Slept

\* a new make_api_request call starts
FreshRequest ==
    /\ attempt' = 0
    /\ retry_delay' = base_delay
    /\ Elapsed

(***************************************************************************)
(* _get_user_bookings_detailed                                             *)
(***************************************************************************)
\* set(ref['bookingId'] for ref in booking_references if ref['deleted'] is None)
unique_booking_ids(rs) == {rs[i].bookingId : i \in {j \in 1..Len(rs) : ~rs[j].deleted}}

\* mutation of belongs_to_user: cancelled bookings are kept
belongs_to_user_any_status(booking_data, user_email) ==
    \E i \in 1..Len(booking_data.attendees) : booking_data.attendees[i].email = user_email

\* status != "CANCELLED" and any(attendee['email'] == user_email ...)
belongs_to_user(booking_data, user_email) ==
    /\ booking_data.status # "CANCELLED"
    /\ \E i \in 1..Len(booking_data.attendees) : booking_data.attendees[i].email = user_email

\* the for loop over unique_booking_ids takes its next element, in the set's
\* iteration order, or the function returns user_bookings
NextBooking(ids) ==
    IF ids = {}
    THEN /\ todo' = {} /\ cur' = 0 /\ pc' = "looked"
    ELSE \E next \in ids : /\ todo' = ids \ {next} /\ cur' = next /\ pc' = "booking"

\* except RequestException: return []
LookupFailed(resp) ==
    /\ user_bookings' = <<>>
    /\ todo' = {}
    /\ cur' = 0
    /\ swallowed' = resp
    /\ pc' = "looked"

\* GET /booking-references: lines 162-166
GetReferences ==
    /\ pc = "refs"
    /\ fetched' = fetched \cup {"GET /booking-references"}
    /\ \E resp \in Responses :
         LET step == request_step(attempt, resp) IN
         \/ /\ step = "sleep"
            /\ RetryRequest
            /\ UNCHANGED <<pc, booking_references, todo, cur, user_bookings, swallowed>>
         \/ /\ step = "return"
            /\ FreshRequest
            /\ booking_references' = refs
            /\ user_bookings' = <<>>
            /\ NextBooking(unique_booking_ids(refs))
            /\ UNCHANGED swallowed
         \/ /\ step = "raise"
            /\ FreshRequest
            /\ LookupFailed(resp)
            /\ UNCHANGED booking_references
    /\ UNCHANGED <<svcVars, op, opsLeft, rtyVars, matching_booking, payload, result,
                   sent, wire, durVars, rtVars, extVars>>

\* GET /bookings/{booking_id} and the filter on its result: lines 169-177
GetBooking ==
    /\ pc = "booking"
    /\ fetched' = fetched \cup {"GET /bookings/{id}"}
    /\ \E resp \in Responses :
         LET step == request_step(attempt, resp) IN
         \/ /\ step = "sleep"
            /\ RetryRequest
            /\ UNCHANGED <<pc, todo, cur, user_bookings, swallowed>>
         \/ /\ step = "return"
            /\ FreshRequest
            /\ user_bookings' = IF belongs_to_user(bookings[cur], op.email)
                                THEN Append(user_bookings, bookings[cur])
                                ELSE user_bookings
            /\ NextBooking(todo)
            /\ UNCHANGED swallowed
         \/ /\ step = "raise"
            /\ FreshRequest
            /\ LookupFailed(resp)
    /\ UNCHANGED <<svcVars, op, opsLeft, rtyVars, booking_references, matching_booking,
                   payload, result, sent, wire, durVars, rtVars, extVars>>

(***************************************************************************)
(* get_user_bookings                                                       *)
(***************************************************************************)
\* next((attendee['timeZone'] for attendee in attendees if attendee['email'] == user_email), None)
user_timezone(booking_data, user_email) ==
    LET hits == {i \in 1..Len(booking_data.attendees) :
                    booking_data.attendees[i].email = user_email}
    IN IF hits = {} THEN "None"
       ELSE booking_data.attendees[CHOOSE i \in hits : \A j \in hits : i <= j].timeZone

\* simplified_booking: start and end on the wall clock of the user's timezone
\* (left in UTC when the user has no attendee record)
simplified_booking(booking_data, user_email) ==
    LET tz == user_timezone(booking_data, user_email)
        zone == IF tz = "None" THEN "UTC" ELSE tz
    IN [startTime |-> astimezone(booking_data.startTime, zone),
        endTime   |-> astimezone(booking_data.endTime, zone),
        timezone  |-> tz]

CallList(email) ==
    /\ Enter([name |-> "list", email |-> email,
              at |-> now, pre |-> [bookings |-> bookings, refs |-> refs]])
    /\ payload' = <<>>
    /\ result' = NoResult
    /\ pc' = "refs"
    /\ UNCHANGED <<now, svcVars, durVars, rtVars, extVars>>

\* lines 200-223, after _get_user_bookings_detailed has returned
ListBookings ==
    /\ pc = "looked"
    /\ op.name = "list"
    /\ result' = Returned("user_bookings",
                          [i \in 1..Len(user_bookings) |->
                              simplified_booking(user_bookings[i], op.email)])
    /\ pc' = "idle"
    /\ UNCHANGED <<now, svcVars, op, opsLeft, tryVars, rtyVars, locVars, hisVars,
                   durVars, rtVars, extVars>>

(***************************************************************************)
(* _find_booking                                                           *)
(***************************************************************************)
\* mutation of matches_target: the time of day is not compared
matches_target_date_only(booking, date, time) ==
    astimezone(booking.startTime, booking.attendees[1].timeZone).date = date

\* localized_booking_time.strftime("%Y-%m-%dT%H:%M:00") == target_datetime, the
\* booking time localized in the timezone of the booking's first attendee
matches_target(booking, date, time) ==
    astimezone(booking.startTime, booking.attendees[1].timeZone)
        = [date |-> date, time |-> time]

\* index of the first booking of the list that matches, 0 for None
find_booking(ubs, date, time) ==
    LET hits == {i \in 1..Len(ubs) : matches_target(ubs[i], date, time)}
    IN IF hits = {} THEN 0 ELSE CHOOSE i \in hits : \A j \in hits : i <= j

(***************************************************************************)
(* cancel_user_booking                                                     *)
(***************************************************************************)
\* history: the call repeats the operation before it, a cancel with the same
\* arguments that found exactly one matching booking and got it cancelled
repeats_cancel(email, date, time) ==
    /\ op.name = "cancel"
    /\ op.email = email /\ op.date = date /\ op.time = time
    /\ matching_booking # <<>>
    /\ bookings[matching_booking.id].status = "CANCELLED"
    /\ Cardinality({i \in 1..Len(user_bookings) :
                       matches_target(user_bookings[i], date, time)}) = 1

CallCancel(email, date, time) ==
    /\ Enter([name |-> "cancel", email |-> email, date |-> date, time |-> time,
              repeats |-> repeats_cancel(email, date, time),
              at |-> now, pre |-> [bookings |-> bookings, refs |-> refs]])
    /\ payload' = <<>>
    /\ result' = NoResult
    /\ pc' = "refs"
    /\ UNCHANGED <<now, svcVars, durVars, rtVars, extVars>>

\* lines 270-283, after _get_user_bookings_detailed has returned
CancelFind ==
    /\ pc = "looked"
    /\ op.name = "cancel"
    /\ LET m == find_booking(user_bookings, op.date, op.time) IN
         IF m = 0
         THEN /\ result' = ReturnedError("not_found", "none", 0, <<>>)
              /\ pc' = "idle"
              /\ UNCHANGED <<matching_booking, cur>>
         ELSE /\ matching_booking' = user_bookings[m]
              /\ cur' = user_bookings[m].id
              /\ pc' = "cancel"
              /\ UNCHANGED result
    /\ UNCHANGED <<now, svcVars, op, opsLeft, tryVars, rtyVars, booking_references, todo,
                   user_bookings, payload, hisVars, durVars, rtVars, extVars>>

\* the service marks a booking cancelled; it may flag the booking's references
\* as deleted while doing so
Cancelled(bs, id) == [bs EXCEPT ![id].status = "CANCELLED"]
Flagged(rs, id) ==
    [i \in 1..Len(rs) |-> IF rs[i].bookingId = id THEN [rs[i] EXCEPT !.deleted = TRUE]
                          ELSE rs[i]]

\* DELETE /bookings/{booking_id}/cancel: lines 285-288, 305-308. A response that
\* passes raise_for_status with a status other than 200 takes the else branch of
\* lines 305-306, after the service has cancelled the booking.
CancelDelete ==
    /\ pc = "cancel"
    /\ sent' = Count("DELETE /bookings/{id}/cancel")
    /\ \E resp \in Responses :
         LET step == wrapper_step(attempt, resp) IN
         \/ /\ step = "sleep"
            /\ RetryRequest
            /\ UNCHANGED <<pc, svcVars, result>>
         \/ /\ step = "return"
            /\ FreshRequest
            /\ bookings' = Cancelled(bookings, cur)
            /\ \E flag \in BOOLEAN : refs' = IF flag THEN Flagged(refs, cur) ELSE refs
            /\ IF status_code_200(resp)
               THEN /\ pc' = "cancel_refs"
                    /\ UNCHANGED result
               ELSE \* line 306 reads the body; without one lines 307-308 answer
                    /\ result' = ReturnedError(IF json_raises(resp)
                                               THEN "error_cancelling_or_deleting"
                                               ELSE "error_cancelling",
                                               resp, attempt + 1, <<>>)
                    /\ pc' = "idle"
         \/ /\ step = "raise"
            /\ FreshRequest
            /\ result' = ReturnedError("error_cancelling_or_deleting", resp, attempt + 1, <<>>)
            /\ pc' = "idle"
            /\ UNCHANGED svcVars
    /\ UNCHANGED <<op, opsLeft, rtyVars, locVars, fetched, swallowed, wire,
                   durVars, rtVars, extVars>>

\* mutation of first_reference: the bookingId is not compared
first_reference_any(rs, booking_id) == IF Len(rs) = 0 THEN 0 ELSE 1

\* index of the first reference of the list with this bookingId, 0 if none
first_reference(rs, booking_id) ==
    LET hits == {i \in 1..Len(rs) : rs[i].bookingId = booking_id}
    IN IF hits = {} THEN 0 ELSE CHOOSE i \in hits : \A j \in hits : i <= j

\* GET /booking-references after the cancel call: lines 290-295, 304, 307-308
CancelGetReferences ==
    /\ pc = "cancel_refs"
    /\ fetched' = fetched \cup {"GET /booking-references"}
    /\ \E resp \in Responses :
         LET step == request_step(attempt, resp) IN
         \/ /\ step = "sleep"
            /\ RetryRequest
            /\ UNCHANGED <<pc, booking_references, cur, result>>
         \/ /\ step = "return"
            /\ FreshRequest
            /\ booking_references' = refs
            /\ LET r == first_reference(refs, matching_booking.id) IN
                 IF r = 0
                 THEN /\ result' = Returned("cancelled_no_reference", <<>>)
                      /\ pc' = "idle"
                      /\ UNCHANGED cur
                 ELSE /\ cur' = refs[r].id
                      /\ pc' = "cancel_delref"
                      /\ UNCHANGED result
         \/ /\ step = "raise"
            /\ FreshRequest
            /\ result' = ReturnedError("error_cancelling_or_deleting", resp, attempt + 1, <<>>)
            /\ pc' = "idle"
            /\ UNCHANGED <<booking_references, cur>>
    /\ UNCHANGED <<svcVars, op, opsLeft, rtyVars, todo, user_bookings, matching_booking,
                   payload, sent, swallowed, wire, durVars, rtVars, extVars>>

\* the service removes a reference record
Removed(rs, id) == SelectSeq(rs, LAMBDA r : r.id # id)

\* DELETE /booking-references/{id}: lines 296-302, 307-308
CancelDeleteReference ==
    /\ pc = "cancel_delref"
    /\ sent' = Count("DELETE /booking-references/{id}")
    /\ \E resp \in Responses :
         LET step == wrapper_step(attempt, resp) IN
         \/ /\ step = "sleep"
            /\ RetryRequest
            /\ UNCHANGED <<pc, svcVars, result>>
         \/ /\ step = "return"
            /\ FreshRequest
            /\ refs' = Removed(refs, cur)
            /\ result' = IF status_code_200(resp)
                         THEN Returned("cancelled_and_deleted", <<>>)
                         ELSE \* line 302 reads the body; without one lines 307-308 answer
                              ReturnedError(IF json_raises(resp)
                                            THEN "error_cancelling_or_deleting"
                                            ELSE "cancelled_reference_error",
                                            resp, attempt + 1, <<>>)
            /\ pc' = "idle"
            /\ UNCHANGED bookings
         \/ /\ step = "raise"
            /\ FreshRequest
            /\ result' = ReturnedError("error_cancelling_or_deleting", resp, attempt + 1, <<>>)
            /\ pc' = "idle"
            /\ UNCHANGED svcVars
    /\ UNCHANGED <<op, opsLeft, rtyVars, locVars, fetched, swallowed, wire,
                   durVars, rtVars, extVars>>

(***************************************************************************)
(* reschedule_booking, itself wrapped by retry_with_backoff                *)
(***************************************************************************)
\* Python truth value of an optional string / optional int argument
given(x) == x # NoValue
given_int(x) == x # NoValue /\ x # 0

\* mutation of no_new_values: only an explicit 0 counts as a missing duration
no_new_values_zero_only(new_date, new_time, new_duration) ==
    ~given(new_date) /\ ~given(new_time) /\ new_duration = 0

\* not new_date and not new_time and not new_duration
no_new_values(new_date, new_time, new_duration) ==
    ~given(new_date) /\ ~given(new_time) /\ ~given_int(new_duration)

\* lines 393-398: the new end time
reschedule_end_time(booking, start_time, new_duration) ==
    IF given_int(new_duration) THEN start_time + new_duration
    ELSE start_time + (booking.endTime - booking.startTime)

\* mutation of reschedule_start_time: the new date and time are read as UTC
reschedule_start_time_utc(booking, o) ==
    IF given(o.new_date) \/ given(o.new_time)
    THEN localize(IF given(o.new_date) THEN o.new_date ELSE o.date,
                  IF given(o.new_time) THEN o.new_time ELSE o.time,
                  "UTC")
    ELSE booking.startTime

\* lines 384-390: the new start time (only called when the strings parse)
reschedule_start_time(booking, o) ==
    IF given(o.new_date) \/ given(o.new_time)
    THEN localize(IF given(o.new_date) THEN o.new_date ELSE o.date,
                  IF given(o.new_time) THEN o.new_time ELSE o.time,
                  booking.attendees[1].timeZone)
    ELSE booking.startTime

\* strptime(f"{new_date} {new_time}") raises ValueError
reschedule_bad_format(o) ==
    /\ given(o.new_date) \/ given(o.new_time)
    /\ ~parses(IF given(o.new_date) THEN o.new_date ELSE o.date,
               IF given(o.new_time) THEN o.new_time ELSE o.time)

\* the wrapper calls reschedule_booking: lines 366-369 (the ValueError is no
\* HTTPError, so it leaves the wrapper at once)
CallReschedule(email, date, time, new_date, new_time, new_duration) ==
    /\ Enter([name |-> "reschedule", email |-> email, date |-> date, time |-> time,
              new_date |-> new_date, new_time |-> new_time, new_duration |-> new_duration,
              at |-> now, pre |-> [bookings |-> bookings, refs |-> refs]])
    /\ payload' = <<>>
    /\ IF no_new_values(new_date, new_time, new_duration)
       THEN /\ result' = Raised("no_new_values", "none", 0)
            /\ pc' = "idle"
       ELSE /\ result' = NoResult
            /\ pc' = "refs"
    /\ UNCHANGED <<now, svcVars, durVars, rtVars, extVars>>

\* lines 369-407, after _get_user_bookings_detailed has returned
RescheduleFind ==
    /\ pc = "looked"
    /\ op.name = "reschedule"
    /\ LET m == find_booking(user_bookings, op.date, op.time) IN
         IF m = 0
         THEN /\ result' = Raised("not_found", "none", 0)
              /\ pc' = "idle"
              /\ UNCHANGED <<matching_booking, cur, payload>>
         ELSE LET booking    == user_bookings[m]
                  start_time == reschedule_start_time(booking, op)
                  end_time   == reschedule_end_time(booking, start_time, op.new_duration)
              IN
              /\ matching_booking' = booking
              /\ cur' = booking.id
              /\ IF reschedule_bad_format(op)
                 THEN /\ result' = Raised("invalid_format", "none", 0)
                      /\ pc' = "idle"
                      /\ UNCHANGED payload
                 ELSE IF is_past(start_time, now)
                 THEN /\ result' = Raised("past", "none", 0)
                      /\ pc' = "idle"
                      /\ UNCHANGED payload
                 ELSE /\ payload' = [start |-> start_time, end |-> end_time]
                      /\ pc' = "patch"
                      /\ UNCHANGED result
    /\ UNCHANGED <<now, svcVars, op, opsLeft, tryVars, rtyVars, booking_references, todo,
                   user_bookings, hisVars, durVars, rtVars, extVars>>

\* the service applies a partial update
Updated(bs, id, body) == [bs EXCEPT ![id].startTime = body.start, ![id].endTime = body.end]

\* requests.patch: lines 410-418, and the except clause of the wrapper around
\* reschedule_booking (lines 37-46), which on a 429 sleeps and calls the whole
\* function again
ReschedulePatch ==
    /\ pc = "patch"
    /\ sent' = Count("PATCH /bookings/{id}")
    /\ wire' = payload
    /\ \E resp \in Responses :
         \/ /\ resp \in OkStatuses
            /\ bookings' = Updated(bookings, cur, payload)
            /\ result' = IF json_raises(resp)
                         THEN \* line 414; re-raised by lines 415-418, not an HTTPError
                              Raised("JSONDecodeError", resp, r_attempt + 1)
                         ELSE Returned("rescheduled", Updated(bookings, cur, payload)[cur])
            /\ pc' = "idle"
            /\ Elapsed
            /\ UNCHANGED <<refs, rtyVars, locVars>>
         \/ /\ resp \in HttpErrStatuses
            /\ LET step == wrapper_step(r_attempt, resp) IN
                 \/ /\ step = "sleep"
                    /\ r_attempt' = r_attempt + 1
                    /\ r_delay' = next_retry_delay(r_delay)
                    /\ Slept
                    /\ booking_references' = <<>>
                    /\ todo' = {}
                    /\ cur' = 0
                    /\ user_bookings' = <<>>
                    /\ matching_booking' = <<>>
                    /\ payload' = <<>>
                    /\ pc' = "refs"
                    /\ UNCHANGED <<svcVars, result>>
                 \/ /\ step = "raise"
                    /\ result' = Raised("HTTPError", resp, r_attempt + 1)
                    /\ pc' = "idle"
                    /\ Elapsed
                    /\ UNCHANGED <<svcVars, rtyVars, locVars>>
         \/ /\ resp \in TransportErrors
            \* `response` is unbound when line 417 reads response.text
            /\ result' = Raised("UnboundLocalError", resp, r_attempt + 1)
            /\ pc' = "idle"
            /\ Elapsed
            /\ UNCHANGED <<svcVars, rtyVars, locVars>>
    /\ UNCHANGED <<op, opsLeft, tryVars, fetched, swallowed, durVars, rtVars, extVars>>

(***************************************************************************)
(* _remove_cancelled_booking_references                                    *)
(***************************************************************************)
CallPurge ==
    /\ Enter([name |-> "purge",
              at |-> now, pre |-> [bookings |-> bookings, refs |-> refs]])
    /\ payload' = <<>>
    /\ result' = NoResult
    /\ reference_index' = 0
    /\ cancelled_refs_removed' = 0
    /\ pc' = "purge_refs"
    /\ UNCHANGED <<now, svcVars, durVars, rtVars, chatVars>>

\* the for loop over booking_references goes to its element i, or the function
\* returns the count: lines 327, 347
PurgeLoop(list, i, count) ==
    /\ reference_index' = i
    /\ cancelled_refs_removed' = count
    /\ IF i > Len(list)
       THEN /\ result' = Returned("removed", [count |-> count])
            /\ pc' = "idle"
       ELSE /\ pc' = "purge_booking"
            /\ UNCHANGED result

\* except RequestException: lines 349-350
PurgeFailed(request, resp) ==
    /\ result' = ReturnedError("error_removing", resp, attempt + 1, [request |-> request])
    /\ pc' = "idle"
    /\ UNCHANGED purVars

\* GET /booking-references: lines 320-325
PurgeGetReferences ==
    /\ pc = "purge_refs"
    /\ fetched' = fetched \cup {"GET /booking-references"}
    /\ \E resp \in Responses :
         LET step == request_step(attempt, resp) IN
         \/ /\ step = "sleep"
            /\ RetryRequest
            /\ UNCHANGED <<pc, booking_references, result, purVars>>
         \/ /\ step = "return"
            /\ FreshRequest
            /\ booking_references' = refs
            /\ PurgeLoop(refs, 1, 0)
         \/ /\ step = "raise"
            /\ FreshRequest
            /\ PurgeFailed("GET /booking-references", resp)
            /\ UNCHANGED booking_references
    /\ UNCHANGED <<svcVars, op, opsLeft, rtyVars, todo, cur, user_bookings,
                   matching_booking, payload, sent, swallowed, wire,
                   durVars, rtVars, chatVars>>

\* GET /bookings/{booking_id} of the reference the loop is at: lines 328-337
PurgeGetBooking ==
    /\ pc = "purge_booking"
    /\ fetched' = fetched \cup {"GET /bookings/{id}"}
    /\ \E resp \in Responses :
         LET step == request_step(attempt, resp)
             reference == booking_references[reference_index]
         IN
         \/ /\ step = "sleep"
            /\ RetryRequest
            /\ UNCHANGED <<pc, cur, result, purVars>>
         \/ /\ step = "return"
            /\ FreshRequest
            /\ IF bookings[reference.bookingId].status = "CANCELLED"
               THEN /\ cur' = reference.id
                    /\ pc' = "purge_delete"
                    /\ UNCHANGED <<result, purVars>>
               ELSE /\ PurgeLoop(booking_references, reference_index + 1,
                                 cancelled_refs_removed)
                    /\ UNCHANGED cur
         \/ /\ step = "raise"
            /\ FreshRequest
            /\ PurgeFailed("GET /bookings/{id}", resp)
            /\ UNCHANGED cur
    /\ UNCHANGED <<svcVars, op, opsLeft, rtyVars, booking_references, todo,
                   user_bookings, matching_booking, payload, sent, swallowed, wire,
                   durVars, rtVars, chatVars>>

\* DELETE /booking-references/{reference_id}: lines 338-345, 349-350. A response
\* that passes raise_for_status with a status other than 200 is printed and not
\* counted (lines 344-345), and the loop goes on when the response has a body.
PurgeDelete ==
    /\ pc = "purge_delete"
    /\ sent' = Count("DELETE /booking-references/{id}")
    /\ \E resp \in Responses :
         LET step == wrapper_step(attempt, resp) IN
         \/ /\ step = "sleep"
            /\ RetryRequest
            /\ UNCHANGED <<pc, refs, result, purVars>>
         \/ /\ step = "return"
            /\ FreshRequest
            /\ refs' = Removed(refs, cur)
            /\ IF ~status_code_200(resp) /\ json_raises(resp)
               THEN \* the print of line 345 reads the body; without one the
                    \* except clause of lines 349-350 ends the sweep
                    PurgeFailed("DELETE /booking-references/{id}", resp)
               ELSE PurgeLoop(booking_references, reference_index + 1,
                              IF status_code_200(resp) THEN cancelled_refs_removed + 1
                              ELSE cancelled_refs_removed)
         \/ /\ step = "raise"
            /\ FreshRequest
            /\ PurgeFailed("DELETE /booking-references/{id}", resp)
            /\ UNCHANGED refs
    /\ UNCHANGED <<bookings, op, opsLeft, rtyVars, locVars, fetched, swallowed, wire,
                   durVars, rtVars, chatVars>>

(***************************************************************************)
(* The tools of backend.py: what the agent gets from an operation          *)
(***************************************************************************)
\* mutation of handle_tool_error: the tools do not handle their ToolException
handle_tool_error_off == FALSE

\* handle_tool_error: bool = True, on each of the four tools
handle_tool_error == TRUE

\* "error" in result_json, for the JSON string create_booking returns
create_result_is_error(res) == res.tag # "created"

\* json.loads(result).get('user_bookings', [])
listed_bookings(res) == IF res.tag = "user_bookings" THEN res.data ELSE <<>>

\* _run of the tool of the operation o, given what the calcom_api function did:
\* a returned string, or ToolException raised with a message
tool_run(o, res) ==
    IF res.kind = "raise"
    THEN [kind |-> "ToolException", text |-> "error_occurred"]
    ELSE CASE o.name = "create" ->
                IF create_result_is_error(res)
                THEN [kind |-> "ToolException", text |-> "booking_error"]
                ELSE [kind |-> "return", text |-> "booking_created"]
           [] o.name = "list" ->
                IF Len(listed_bookings(res)) > 0
                THEN [kind |-> "return", text |-> "found_bookings"]
                ELSE [kind |-> "return", text |-> "no_bookings_found"]
           [] o.name = "cancel" -> [kind |-> "return", text |-> res.tag]
           [] o.name = "reschedule" -> [kind |-> "return", text |-> "booking_rescheduled"]
           [] OTHER -> [kind |-> "return", text |-> res.tag]

\* BaseTool.run around _run: with handle_tool_error set the message of a
\* ToolException becomes the observation handed to the agent, otherwise the
\* exception propagates
tool_observation(o, res) ==
    LET out == tool_run(o, res) IN
    IF out.kind = "ToolException"
    THEN IF handle_tool_error THEN [kind |-> "return", text |-> out.text]
         ELSE [kind |-> "raise", text |-> out.text]
    ELSE out

(***************************************************************************)
(* The /chat route (app.py) and response (backend.py)                      *)
(***************************************************************************)
\* the browsers that talk to the server, each holding one conversation
Clients == {"c1", "c2"}

\* the HumanMessage and AIMessage that save_context appends for a turn
turn_messages(client, turn) ==
    << [role |-> "human", client |-> client, turn |-> turn],
       [role |-> "ai", client |-> client, turn |-> turn] >>

\* POST /chat arrives and chat() calls response(message): app.py lines 11-14.
\* app.run serves each request on a thread of its own.
ChatReceive(t, client) ==
    /\ requests[t].pc = "idle"
    /\ requests' = [requests EXCEPT ![t] =
                       [pc |-> "load", client |-> client, turn |-> t, chat_history |-> <<>>]]
    /\ UNCHANGED <<memory, purVars, durVars, rtVars, opVars>>

\* agent_executor.invoke, first part: the executor reads chat_history from the
\* memory it was built with (backend.py lines 144-149, 152)
ChatLoad(t) ==
    /\ requests[t].pc = "load"
    /\ requests' = [requests EXCEPT ![t].pc = "agent", ![t].chat_history = memory]
    /\ UNCHANGED <<memory, purVars, durVars, rtVars, opVars>>

\* agent_executor.invoke, last part: the agent has produced its output and the
\* executor saves the turn to its memory (backend.py lines 144-149, 152)
ChatInvoke(t) ==
    /\ requests[t].pc = "agent"
    /\ memory' = memory \o turn_messages(requests[t].client, requests[t].turn)
    /\ requests' = [requests EXCEPT ![t].pc = "save"]
    /\ UNCHANGED <<purVars, durVars, rtVars, opVars>>

\* memory.save_context({"input": ...}, {"output": ...}) and the return:
\* backend.py lines 154-155
ChatSave(t) ==
    /\ requests[t].pc = "save"
    /\ memory' = memory \o turn_messages(requests[t].client, requests[t].turn)
    /\ requests' = [requests EXCEPT ![t].pc = "done"]
    /\ UNCHANGED <<purVars, durVars, rtVars, opVars>>

(***************************************************************************)
(* Specifications                                                          *)
(***************************************************************************)
InitDur == InitDurations /\ RtIdle /\ OpRest
NextDur == NormalizeDuration
SpecDur == InitDur /\ [][NextDur]_vars

InitRetry == DurIdle /\ RtIdle /\ OpRest
NextRetry == RtCall \/ RtAttempt \/ RtSleep
SpecRetry == InitRetry /\ [][NextRetry]_vars

\* SpecSeeded: list, cancel and the reference sweep against a service that
\* already holds one booking, made by whoever, with its reference records
InitSeeded ==
    /\ DurIdle /\ RtIdle /\ OpIdle
    /\ now = NowStart
    /\ \E attendees \in AttendeeLists, status \in SeedStatuses :
         bookings = << SeedBooking(attendees, status) >>
    /\ \E flags \in SeedRefFlags : refs = SeedRefs(flags)
    /\ opsLeft = SeededOps
NextSeeded ==
    \/ \E email \in Emails : CallList(email)
    \/ \E email \in Emails, date \in SeedDates, time \in SeedTimes :
          CallCancel(email, date, time)
    \/ CallPurge
    \/ GetReferences
    \/ GetBooking
    \/ ListBookings
    \/ CancelFind
    \/ CancelDelete
    \/ CancelGetReferences
    \/ CancelDeleteReference
    \/ PurgeGetReferences
    \/ PurgeGetBooking
    \/ PurgeDelete
SpecSeeded == InitSeeded /\ [][NextSeeded]_vars

\* SpecCancel: a conversation that only cancels, against a service that
\* already holds two bookings and their reference records
InitCancel ==
    /\ DurIdle /\ RtIdle /\ OpIdle
    /\ now = NowStart
    /\ \E attendees \in AttendeeLists, status \in SeedStatuses :
         bookings = << SeedBooking(attendees, status), OtherBooking >>
    /\ \E other \in OtherRefs, flags \in SeedRefFlags : refs = other \o SeedRefs(flags)
    /\ opsLeft = MaxOps
NextCancel ==
    \/ \E email \in Emails, date \in SeedDates, time \in SeedTimes :
          CallCancel(email, date, time)
    \/ GetReferences
    \/ GetBooking
    \/ CancelFind
    \/ CancelDelete
    \/ CancelGetReferences
    \/ CancelDeleteReference
SpecCancel == InitCancel /\ [][NextCancel]_vars

\* SpecChat: the server takes /chat requests from its clients
InitChat == DurIdle /\ RtIdle /\ OpRest
NextChat ==
    \/ \E t \in Threads, client \in Clients : ChatReceive(t, client)
    \/ \E t \in Threads : ChatLoad(t)
    \/ \E t \in Threads : ChatInvoke(t)
    \/ \E t \in Threads : ChatSave(t)
SpecChat == InitChat /\ [][NextChat]_vars

Init == DurIdle /\ RtIdle /\ OpIdle /\ InitService
Next ==
    \/ Tick
    \/ \E date \in Dates, time \in CreateTimes, dur \in CreateDurations, who \in Callers :
          CallCreate(date, time, dur, who)
    \/ CreatePost
    \/ \E email \in Emails : CallList(email)
    \/ \E email \in Emails, date \in Dates, time \in Times : CallCancel(email, date, time)
    \/ \E email \in Emails, date \in Dates, time \in Times, new \in NewValues :
          CallReschedule(email, date, time, new[1], new[2], new[3])
    \/ GetReferences
    \/ GetBooking
    \/ ListBookings
    \/ CancelFind
    \/ CancelDelete
    \/ CancelGetReferences
    \/ CancelDeleteReference
    \/ RescheduleFind
    \/ ReschedulePatch
Spec == Init /\ [][Next]_vars

(***************************************************************************)
(* Claims about find_closest_duration                                      *)
(***************************************************************************)
AllowedDurations ==
    {5, 10, 15, 20, 25, 30, 45, 50, 60, 75, 80, 90, 120, 150, 180, 240, 300, 360, 420, 480}

\* C1: for every positive duration d, find_closest_duration(d) is a member of
\* the allowed set, no member is strictly closer to d, and of two equally close
\* members the smaller one is returned.
C1_ClosestDuration ==
    adjusted_duration # NoValue =>
        /\ adjusted_duration \in AllowedDurations
        /\ \A m \in AllowedDurations :
             /\ Abs(m - duration) >= Abs(adjusted_duration - duration)
             /\ Abs(m - duration) = Abs(adjusted_duration - duration)
                    => adjusted_duration <= m

\* a duration at equal distance from two members (50 and 60) has been normalised
C1_Witness ==
    /\ adjusted_duration # NoValue
    /\ duration = 55
    /\ \E m \in AllowedDurations :
         m # adjusted_duration /\ Abs(m - duration) = Abs(adjusted_duration - duration)

(***************************************************************************)
(* Claims about the retrying transport                                     *)
(***************************************************************************)
AllRateLimited(k) == \A i \in 1..k : rt_resps[i] = "429"

\* C2: at most 5 attempts per call; k <= 4 rate-limit responses followed by a
\* success return that success; 5 rate-limit responses raise the rate-limit
\* failure and there is no 6th attempt.
C2_AtMostFiveAttempts ==
    /\ Len(rt_resps) <= 5
    /\ \A k \in 0..4 :
         (Len(rt_resps) > k /\ AllRateLimited(k) /\ rt_resps[k + 1] \in OkStatuses)
            => /\ Len(rt_resps) = k + 1
               /\ rt_pc = "returned"
               /\ rt_result = [kind |-> "return", resp |-> rt_resps[k + 1]]
    /\ (Len(rt_resps) >= 5 /\ AllRateLimited(5))
            => /\ rt_pc = "raised"
               /\ rt_result = [kind |-> "raise", resp |-> "429"]

\* five rate-limit responses in a row were received and the failure was raised
C2_Witness ==
    /\ Len(rt_resps) = 5 /\ AllRateLimited(5)
    /\ rt_pc = "raised"

RECURSIVE Pow2(_)
Pow2(n) == IF n <= 0 THEN 1 ELSE 2 * Pow2(n - 1)

\* C3: the wait before attempt k (2 <= k <= 5) is base_delay * 2^(k-2) plus a
\* jitter in [0,1]; the waits of one call never decrease; there is no wait after
\* the final failed attempt.
C3_BackoffWaits ==
    /\ \A i \in 1..Len(rt_waits) :
         /\ i + 1 <= 5
         /\ rt_waits[i] >= base_delay * Pow2(i - 1) * JitterScale
         /\ rt_waits[i] <= base_delay * Pow2(i - 1) * JitterScale + JitterScale
    /\ \A i \in 1..(Len(rt_waits) - 1) : rt_waits[i] <= rt_waits[i + 1]
    /\ rt_pc \in {"raised", "returned"} => Len(rt_waits) = Len(rt_resps) - 1
    /\ rt_pc = "calling" => Len(rt_waits) = Len(rt_resps)

\* four rate-limit responses then a success: four waits, the first with full
\* jitter and the second with none (the closest two consecutive waits can get)
C3_Witness ==
    /\ rt_pc = "returned"
    /\ Len(rt_resps) = 5 /\ AllRateLimited(4) /\ rt_resps[5] = "200"
    /\ Len(rt_waits) = 4
    /\ rt_waits[1] = JitterScale + JitterScale
    /\ rt_waits[2] = 2 * JitterScale

\* C4: an error status other than 429 and any transport-level failure is raised
\* on the attempt where it occurs, with no further attempt and no wait after
\* it, also after earlier 429s of the same call.
C4_OtherErrorsNotRetried ==
    \A i \in 1..Len(rt_resps) :
        rt_resps[i] \in (HttpErrStatuses \ {"429"}) \cup TransportErrors
            => /\ i = Len(rt_resps)
               /\ rt_pc = "raised"
               /\ rt_result = [kind |-> "raise", resp |-> rt_resps[i]]
               /\ Len(rt_waits) = i - 1

\* a transport failure on the third attempt, after two 429s, was raised
C4_Witness ==
    /\ Len(rt_resps) = 3 /\ AllRateLimited(2)
    /\ rt_resps[3] \in TransportErrors
    /\ rt_pc = "raised"

(***************************************************************************)
(* Claims about the orchestrator operations                                *)
(***************************************************************************)
\* C5: every request of create, list, cancel and reschedule goes through the
\* retrying transport, so an operation reports a rate-limit failure of a
\* request only after 5 attempts of that request.
C5_RateLimitOnlyAfterExhaustion ==
    (pc = "idle" /\ result.cause = "429") => result.tries = max_retries

\* the instant create resolves its date and time to, in ticks
CreateStartTicks(o) == (o.date * MinutesPerDay + o.time - utc_offset(SystemTimezone)) * TicksPerMinute

\* C6: create with a date/time that resolves to an instant strictly before the
\* current time returns the past-time error whatever duration, reason, name
\* and email are, and sends no request.
C6_PastCreateRejected ==
    (op.name = "create" /\ parses(op.date, op.time) /\ CreateStartTicks(op) < op.at)
        => /\ pc = "idle"
           /\ result.kind = "return" /\ result.tag = "past"
           /\ sent = NothingSent /\ fetched = {} /\ wire = <<>>
           /\ bookings = op.pre.bookings /\ refs = op.pre.refs

\* C7: in every request body create or reschedule sends, end minus start is a
\* member of the allowed duration set.
C7_SentDurationAllowed ==
    wire # <<>> => (wire.end - wire.start) \in AllowedDurations

\* minute of the day of a time printed by strftime('%I:%M %p')
MinuteOfDay(t) == ((t.hour % 12) + (IF t.ampm = "PM" THEN 12 ELSE 0)) * 60 + t.minute
TimeRangeSpan(range) == (MinuteOfDay(range.to) - MinuteOfDay(range.from)) % MinutesPerDay

\* C8: when the service accepts a create, the summary's Duration field, the
\* span of its Time range and end minus start of the POST body all equal
\* find_closest_duration(requested duration).
C8_CreatedSummaryDuration ==
    (op.name = "create" /\ result.tag = "created")
        => /\ result.data.Duration \in AllowedDurations
           /\ \A m \in AllowedDurations :
                /\ Abs(m - op.duration) >= Abs(result.data.Duration - op.duration)
                /\ Abs(m - op.duration) = Abs(result.data.Duration - op.duration)
                      => result.data.Duration <= m
           /\ op.duration \notin AllowedDurations => result.data.Duration # op.duration
           /\ TimeRangeSpan(result.data.Time) = result.data.Duration
           /\ wire.end - wire.start = result.data.Duration

\* a booking requested for 37 minutes was created and reported as 30 minutes
C8_Witness ==
    /\ op.name = "create" /\ result.tag = "created"
    /\ op.duration = 37
    /\ result.data.Duration = 30

\* no booking the service held when the operation was called is a live,
\* referenced booking of o.email that starts at (o.date, o.time) on the wall
\* clock of one of its attendees
NoBookingMatches(o) ==
    \A i \in 1..Len(o.pre.bookings) :
        LET b == o.pre.bookings[i] IN
        ~ /\ b.status # "CANCELLED"
          /\ \E a \in 1..Len(b.attendees) : b.attendees[a].email = o.email
          /\ \E a \in 1..Len(b.attendees) :
                (b.startTime + utc_offset(b.attendees[a].timeZone)) \div MinutesPerDay = o.date
                /\ (b.startTime + utc_offset(b.attendees[a].timeZone)) % MinutesPerDay = o.time

\* C9: when cancel finds no booking of the email at the date/time it returns
\* the not-found message and sends no DELETE of either kind; bookings and
\* references of the service are unchanged.
C9_CancelNotFoundSendsNoDelete ==
    (op.name = "cancel" /\ pc = "idle")
        => /\ NoBookingMatches(op) => result.tag = "not_found"
           /\ result.tag = "not_found"
                => /\ sent = NothingSent
                   /\ bookings = op.pre.bookings /\ refs = op.pre.refs

\* cancel looked the user's bookings up without failure, the user had a booking
\* at another time, and cancel answered not-found
C9_Witness ==
    /\ op.name = "cancel" /\ pc = "idle"
    /\ result.tag = "not_found"
    /\ swallowed = "none"
    /\ NoBookingMatches(op)
    /\ \E i \in 1..Len(op.pre.bookings) :
          /\ op.pre.bookings[i].status # "CANCELLED"
          /\ op.pre.bookings[i].attendees[1].email = op.email
          /\ \E j \in 1..Len(op.pre.refs) :
                op.pre.refs[j].bookingId = i /\ ~op.pre.refs[j].deleted

\* C10: reschedule with new_date, new_time and new_duration all unset fails
\* validation before any request is sent, and the failure is not retried.
C10_RescheduleNothingToChange ==
    (op.name = "reschedule" /\ op.new_date = NoValue /\ op.new_time = NoValue
        /\ op.new_duration = NoValue)
        => /\ pc = "idle"
           /\ result.kind = "raise" /\ result.tag = "no_new_values"
           /\ fetched = {} /\ sent = NothingSent /\ wire = <<>>
           /\ r_attempt = 0

\* reschedule of an existing booking of the caller was asked with nothing to change
C10_Witness ==
    /\ op.name = "reschedule"
    /\ op.new_date = NoValue /\ op.new_time = NoValue /\ op.new_duration = NoValue
    /\ result.tag = "no_new_values"
    /\ \E i \in 1..Len(bookings) :
          /\ bookings[i].attendees[1].email = op.email
          /\ bookings[i].status # "CANCELLED"

(***************************************************************************)
(* Claims about cancel_user_booking after the cancel call                  *)
(***************************************************************************)
\* the cancel call of the current invocation succeeded: the booking it found
\* (not cancelled when it was looked up) now has status CANCELLED
CancelCallSucceeded ==
    /\ op.name = "cancel"
    /\ matching_booking # <<>>
    /\ bookings[matching_booking.id].status = "CANCELLED"

\* the messages of lines 300, 302 and 304, which state that the booking was cancelled
CancelledMessages ==
    {"cancelled_and_deleted", "cancelled_reference_error", "cancelled_no_reference"}

\* C11: once the cancel call has succeeded, cancel_user_booking returns a
\* message that states the booking was cancelled, whatever happens to the
\* reference clean-up; the message is the full-success one only when a
\* reference DELETE was sent and answered with success, and it is never an
\* error message that leaves the cancellation unreported.
C11_CancelReportedWhateverCleanup ==
    (pc = "idle" /\ CancelCallSucceeded) =>
        /\ result.kind = "return"
        /\ result.tag \in CancelledMessages
        /\ result.tag = "cancelled_and_deleted" =>
              /\ sent["DELETE /booking-references/{id}"] > 0
              /\ result.cause = "none"

(***************************************************************************)
(* Claims about the tools                                                  *)
(***************************************************************************)
ToolOperations == {"create", "list", "cancel", "reschedule"}

\* C12: every invocation of create, list, cancel or reschedule ends by handing
\* a message to the agent, whatever the outcome (success, rate limiting until
\* the attempts are exhausted, another error status, a transport failure, no
\* booking found, an instant in the past, an unparsable date or time): no
\* exception leaves the tool.
C12_ToolsAlwaysReturnMessage ==
    (pc = "idle" /\ op.name \in ToolOperations) =>
        tool_observation(op, result).kind = "return"

\* reschedule_booking raised (the PATCH met a transport failure, or was rate
\* limited five times) and the agent got a message for it
C12_Witness ==
    /\ pc = "idle"
    /\ op.name = "reschedule"
    /\ result.kind = "raise"
    /\ result.cause \in TransportErrors \cup {"429"}
    /\ tool_observation(op, result) = [kind |-> "return", text |-> "error_occurred"]

(***************************************************************************)
(* Claims about _find_booking                                              *)
(***************************************************************************)
\* C13: the booking _find_booking returns for (email, date, time) is one whose
\* start, converted into the timezone recorded on the attendee whose email is
\* `email`, falls on that date at that time to the minute, however many
\* attendees the booking has and in whatever order.
C13_FoundInRequestersTimezone ==
    (op.name \in {"cancel", "reschedule"} /\ matching_booking # <<>>) =>
        astimezone(matching_booking.startTime, user_timezone(matching_booking, op.email))
            = [date |-> op.date, time |-> op.time]

(***************************************************************************)
(* Claims about reschedule_booking                                         *)
(***************************************************************************)
PatchesSent == sent["PATCH /bookings/{id}"]

\* C14: reschedule_booking never goes on to the PATCH with a new start that is
\* before the clock it has just read: it raises instead, also when only the
\* duration changes and the booking's own start has passed. The comparison is
\* made by every call the retry wrapper makes, so an invocation rejected for
\* the past has sent one PATCH per earlier (rate-limited) call and none in the
\* call that rejected it.
C14_PastRescheduleRejected ==
    /\ (op.name = "reschedule" /\ pc = "patch") =>
          payload.start * TicksPerMinute >= now
    /\ (op.name = "reschedule" /\ pc = "idle" /\ result.tag = "past") =>
          /\ result.kind = "raise"
          /\ PatchesSent = r_attempt
    /\ (op.name = "reschedule" /\ pc = "idle" /\ result.tag = "rescheduled") =>
          wire.start * TicksPerMinute >= op.at

\* a reschedule that changes only the duration is rejected on a retry: the
\* booking's start passed while the wrapper slept
C14_Witness ==
    /\ op.name = "reschedule" /\ pc = "idle"
    /\ result.tag = "past"
    /\ op.new_date = NoValue /\ op.new_time = NoValue /\ op.new_duration # NoValue
    /\ r_attempt > 0
    /\ matching_booking.startTime * TicksPerMinute < now

(***************************************************************************)
(* Claims about _remove_cancelled_booking_references                       *)
(***************************************************************************)
\* the reference records the sweep found, and those of them gone afterwards
SweptReferences == {op.pre.refs[i] : i \in 1..Len(op.pre.refs)}
LeftReferences == {refs[i] : i \in 1..Len(refs)}

\* C15: the sweep visits every reference record. A reference whose DELETE
\* fails is skipped and the sweep goes on with the remaining ones, so a failed
\* DELETE never ends the sweep with an error; the sweep returns the number of
\* references it deleted, and it deletes a reference only if the booking it
\* points to has status CANCELLED.
C15_SweepSkipsFailedDelete ==
    (op.name = "purge" /\ pc = "idle") =>
        /\ result.tag = "error_removing" =>
              result.data.request # "DELETE /booking-references/{id}"
        /\ result.tag = "removed" =>
              /\ reference_index = Len(op.pre.refs) + 1
              /\ result.data.count = Cardinality(SweptReferences \ LeftReferences)
        /\ \A r \in SweptReferences \ LeftReferences :
              bookings[r.bookingId].status = "CANCELLED"

(***************************************************************************)
(* Claims about the conversation history                                   *)
(***************************************************************************)
InFlight(t) == requests[t].pc \in {"load", "agent", "save"}

\* C16: the conversation history belongs to one session: whatever the
\* interleaving of two /chat requests, the history a request has read holds
\* only turns of its own client, and so does the history it is about to read
\* or append to.
C16_HistoryOwnedByOneSession ==
    \A t \in Threads :
        /\ \A i \in 1..Len(requests[t].chat_history) :
              requests[t].chat_history[i].client = requests[t].client
        /\ InFlight(t) =>
              \A i \in 1..Len(memory) : memory[i].client = requests[t].client

(***************************************************************************)
(* Claims about get_user_bookings and _get_user_bookings_detailed          *)
(***************************************************************************)
\* the bookings of user_email the enumeration is to find in a service state:
\* pointed to by a reference without deletion marker, not cancelled, with
\* user_email among the attendees
EnumerableBookings(bs, rs, user_email) ==
    {b \in {bs[i] : i \in 1..Len(bs)} :
        /\ \E j \in 1..Len(rs) : rs[j].bookingId = b.id /\ ~rs[j].deleted
        /\ b.status # "CANCELLED"
        /\ \E k \in 1..Len(b.attendees) : b.attendees[k].email = user_email}

\* C17: when the fetch of the reference list or of a booking's detail fails,
\* get_user_bookings returns an error message, not a list; the tool answers
\* "no bookings found" only when every fetch succeeded and the user has no
\* booking that is not cancelled.
C17_ListReportsFetchFailure ==
    (op.name = "list" /\ pc = "idle") =>
        /\ swallowed # "none" => result.tag # "user_bookings"
        /\ tool_run(op, result).text = "no_bookings_found" =>
              /\ swallowed = "none"
              /\ EnumerableBookings(bookings, refs, op.email) = {}

\* the bookings collected, as a set
CollectedBookings == {user_bookings[i] : i \in 1..Len(user_bookings)}

\* C18: when _get_user_bookings_detailed returns, the list it returns holds
\* exactly the bookings that some reference without deletion marker points
\* to, that are not cancelled and that have user_email among their attendees,
\* each of them once however many references point to it.
C18_EnumerationExact ==
    pc = "looked" =>
        /\ CollectedBookings = EnumerableBookings(bookings, refs, op.email)
        /\ Len(user_bookings) = Cardinality(CollectedBookings)

(***************************************************************************)
(* Claims about the body of the PATCH request                              *)
(***************************************************************************)
\* the start and end the claim prescribes for rescheduling booking b with the
\* arguments of o: S and E are b's start and end, and the original date and
\* time are those of S on the wall clock of b's attendee timezone
PrescribedPatch(b, o) ==
    LET S == b.startTime
        E == b.endTime
        tz == b.attendees[1].timeZone
        original == astimezone(S, tz)
        new_start ==
            IF o.new_date # NoValue \/ o.new_time # NoValue
            THEN (IF o.new_date # NoValue THEN o.new_date ELSE original.date) * MinutesPerDay
                 + (IF o.new_time # NoValue THEN o.new_time ELSE original.time)
                 - utc_offset(tz)
            ELSE S
        new_end ==
            IF o.new_duration # NoValue THEN new_start + o.new_duration
            ELSE new_start + (E - S)
    IN [start |-> new_start, end |-> new_end]

\* C19: the body reschedule_booking builds, and the body it sends, carry
\* exactly the prescribed start and end: the new start is (new_date or the
\* original date, new_time or the original time) in the booking's attendee
\* timezone when either is given and the original start S otherwise; the new
\* end is the new start plus new_duration when given and the new start plus
\* (E - S) otherwise.
C19_ReschedulePatchBody ==
    /\ (op.name = "reschedule" /\ pc = "patch") =>
          payload = PrescribedPatch(matching_booking, op)
    /\ (op.name = "reschedule" /\ wire # <<>>) =>
          \E i \in 1..Len(op.pre.bookings) : wire = PrescribedPatch(op.pre.bookings[i], op)

\* a PATCH went out that moves a booking to another date, keeping its time of
\* day and its length
C19_Witness ==
    /\ op.name = "reschedule" /\ pc = "idle"
    /\ result.tag = "rescheduled"
    /\ op.new_date # NoValue /\ op.new_time = NoValue /\ op.new_duration = NoValue
    /\ wire.start = matching_booking.startTime + MinutesPerDay
    /\ wire.end - wire.start = matching_booking.endTime - matching_booking.startTime
    /\ matching_booking.attendees[1].timeZone # "UTC"

(***************************************************************************)
(* Claims about the references of a cancelled booking                      *)
(***************************************************************************)
\* references without deletion marker that point to the booking
LiveReferences(rs, booking_id) ==
    {i \in 1..Len(rs) : rs[i].bookingId = booking_id /\ ~rs[i].deleted}

\* C20: once cancel_user_booking has returned its full-success message
\* ("cancelled booking and deleted reference"), no reference without deletion
\* marker points to the booking it cancelled, however many references pointed
\* to it before.
C20_NoLiveReferenceAfterFullSuccess ==
    (op.name = "cancel" /\ pc = "idle" /\ result.tag = "cancelled_and_deleted") =>
        LiveReferences(refs, matching_booking.id) = {}

(***************************************************************************)
(* Claims about the order of the requests of cancel_user_booking           *)
(***************************************************************************)
CancelsSent == sent["DELETE /bookings/{id}/cancel"]
ReferenceDeletesSent == sent["DELETE /booking-references/{id}"]
ReferenceIds(rs) == {rs[i].id : i \in 1..Len(rs)}
\* the references this invocation has removed from the service
RemovedReferences ==
    {op.pre.refs[i] : i \in {j \in 1..Len(op.pre.refs) :
                                op.pre.refs[j].id \notin ReferenceIds(refs)}}

\* C21, amended: within one invocation of cancel_user_booking the requests
\* come in order. The cancel call is sent only once the lookup has found the booking
\* and before any reference DELETE; the reference list is fetched only after
\* the cancel call succeeded; a reference DELETE is sent only after that, for
\* one reference only (sent again only as the retry of a rate-limited
\* attempt), whose bookingId is the cancelled booking's id; as long as the
\* cancel call has not succeeded no reference is deleted.
C21_CancelRequestOrder ==
    op.name = "cancel" =>
        /\ CancelsSent > 0 => matching_booking # <<>>
        /\ pc = "cancel" =>
              /\ cur = matching_booking.id
              /\ ReferenceDeletesSent = 0
        /\ pc = "cancel_refs" =>
              /\ CancelCallSucceeded
              /\ ReferenceDeletesSent = 0
        /\ pc = "cancel_delref" =>
              /\ CancelCallSucceeded
              /\ ReferenceDeletesSent = attempt
              /\ \E i \in 1..Len(booking_references) :
                    /\ booking_references[i].id = cur
                    /\ booking_references[i].bookingId = matching_booking.id
        /\ ReferenceDeletesSent > 0 => CancelCallSucceeded /\ CancelsSent > 0
        /\ ~CancelCallSucceeded => ReferenceIds(refs) = ReferenceIds(op.pre.refs)
        /\ Cardinality(RemovedReferences) <= 1
        /\ \A r \in RemovedReferences : r.bookingId = matching_booking.id

\* C21 as stated: the requests come in that order and at most one
\* DELETE /booking-references/{rid} request is sent in the invocation.
C21_OneReferenceDeleteRequest ==
    /\ C21_CancelRequestOrder
    /\ op.name = "cancel" => ReferenceDeletesSent <= 1

\* the cancel call succeeded and the reference of the cancelled booking was
\* deleted on a retry, while the reference listed first, which points to the
\* other booking, was left alone
C21_Witness ==
    /\ op.name = "cancel" /\ pc = "idle"
    /\ result.tag = "cancelled_and_deleted"
    /\ ReferenceDeletesSent > 1
    /\ op.pre.refs[1].bookingId # matching_booking.id
    /\ refs[1] = op.pre.refs[1]
    /\ Cardinality(RemovedReferences) = 1

(***************************************************************************)
(* Claims about cancelling twice                                           *)
(***************************************************************************)
\* C22: cancel_user_booking called again with the arguments of a call that
\* found exactly one matching booking and cancelled it, with no operation in
\* between, sends no DELETE request, leaves the bookings and the references of
\* the service as the first call left them, and returns the not-found message.
C22_SecondCancelNotFound ==
    (op.name = "cancel" /\ op.repeats) =>
        /\ sent = NothingSent
        /\ bookings = op.pre.bookings
        /\ refs = op.pre.refs
        /\ pc = "idle" => result.tag = "not_found"

\* the second call has looked the bookings up without failure, found the
\* cancelled booking filtered out, and returned
C22_Witness ==
    /\ op.name = "cancel" /\ op.repeats
    /\ pc = "idle"
    /\ result.tag = "not_found"
    /\ swallowed = "none"
    /\ \E i \in 1..Len(bookings) :
          /\ bookings[i].status = "CANCELLED"
          /\ matches_target(bookings[i], op.date, op.time)
          /\ \E j \in 1..Len(booking_references) :
                booking_references[j].bookingId = i /\ ~booking_references[j].deleted

(***************************************************************************)
(* Claims about the turns kept in the conversation history                 *)
(***************************************************************************)
\* positions of the history that hold the user input of the turn of request t
HumanEntries(t) ==
    {i \in 1..Len(memory) : memory[i].role = "human" /\ memory[i].turn = t}

\* C23: the history holds each completed turn exactly once and in order: when
\* response() has returned for a request, the history has one (user input,
\* assistant output) pair for it, the output right after the input, and with
\* n calls returned and none in progress it has n pairs and nothing else.
C23_EachTurnOnce ==
    /\ \A t \in Threads :
          requests[t].pc = "done" =>
              /\ Cardinality(HumanEntries(t)) = 1
              /\ \A i \in HumanEntries(t) :
                    /\ i < Len(memory)
                    /\ memory[i + 1] = [memory[i] EXCEPT !.role = "ai"]
    /\ (\A t \in Threads : requests[t].pc \in {"idle", "done"}) =>
          Len(memory) = 2 * Cardinality({t \in Threads : requests[t].pc = "done"})

(***************************************************************************)
(* Claims about the local times of get_user_bookings and _find_booking     *)
(***************************************************************************)
\* C24: for every booking that get_user_bookings(email) reports, with its
\* start on date d at time t, _find_booking(user_bookings, d, t) returns a
\* booking that starts at the same instant, whatever the order and the
\* timezones of the booking's attendees.
C24_ListAndFindAgree ==
    (op.name = "list" /\ pc = "idle") =>
        \A i \in 1..Len(user_bookings) :
            LET listed == simplified_booking(user_bookings[i], op.email).startTime
                m == find_booking(user_bookings, listed.date, listed.time)
            IN /\ m # 0
               /\ user_bookings[m].startTime = user_bookings[i].startTime

(***************************************************************************)
(* Claims about repeated mutations                                         *)
(***************************************************************************)
\* the bookings whose record differs from what it was when the operation began
ChangedBookings ==
    {i \in 1..Len(op.pre.bookings) : bookings[i] # op.pre.bookings[i]}

\* C25: whatever the responses, one invocation applies each kind of mutation
\* at most once. create sends at most one POST /bookings. cancel sends its
\* cancel call only while the booking is not yet cancelled and its reference
\* DELETE only while it has removed no reference, so at most one of each
\* succeeds. reschedule sends at most 5 PATCH requests, each of them while no
\* PATCH has yet changed a booking, so at most one succeeds; the invocation
\* ends with the PATCH that changed the booking, whether its answer could be
\* read or not.
C25_EachMutationAtMostOnce ==
    /\ sent["POST /bookings"] <= 1
    /\ pc = "post" => sent["POST /bookings"] = 0
    /\ op.name = "create" => Len(bookings) <= Len(op.pre.bookings) + 1
    /\ op.name = "cancel" =>
          /\ pc = "cancel" => bookings[cur].status # "CANCELLED" /\ ChangedBookings = {}
          /\ pc = "cancel_delref" =>
                /\ cur \in ReferenceIds(refs)
                /\ RemovedReferences = {}
          /\ Cardinality(ChangedBookings) <= 1
          /\ Cardinality(RemovedReferences) <= 1
    /\ op.name = "reschedule" =>
          /\ PatchesSent <= max_retries
          /\ pc = "patch" => ChangedBookings = {}
          /\ Cardinality(ChangedBookings) <= 1
          /\ ChangedBookings # {} =>
                pc = "idle" /\ result.tag \in {"rescheduled", "JSONDecodeError"}

\* reschedule_booking was rate limited on every PATCH: it sent five and gave up
C25_Witness ==
    /\ op.name = "reschedule" /\ pc = "idle"
    /\ PatchesSent = max_retries
    /\ result.kind = "raise" /\ result.cause = "429"
    /\ ChangedBookings = {}
====
